---- MODULE Spec2Model ----
(***************************************************************************)
(* Verification hooks of dawg: the HTTP routes of                          *)
(* src/server/routes/verification.ts (trigger normalisation and matching,  *)
(* step classification, run-all / run-single requests, status reads and    *)
(* the agent's skill self-reports) over the HooksManager they call.        *)
(* verification-manager.ts is not among the sources: its operations        *)
(* (runAll, runSingle, getStatus, reportSkillResult, getSkillResults) are  *)
(* modelled from the written specification and marked so in the map.       *)
(***************************************************************************)
EXTENDS Integers, Sequences, FiniteSets, TLC

VARIABLES
  steps,         \* hooksManager.getConfig().steps: the ordered steps of the Config
  req,           \* the HTTP run requests, by request number: position and inputs
  run,           \* the Run each accepted request created, by request number
  slot,          \* per worktree: the request whose Run is the stored "last run"
  log,           \* manager.getActivityLog(): the events added, in order
  skillResults,  \* the self-report store: the set of stored SkillResult records
  skills,        \* hooksManager.getConfig().skills: the SkillHookInstances
  issued,        \* the step ids the Config Store has assigned or has stored
  overrides,     \* per worktree: the skill overrides notesManager holds
  resp,          \* the response of the last read or report request; beside an
                 \* accepted report, what was stored under its key and whether
                 \* a run of its worktree was in flight when it was handled
  fnArg,         \* argument of the trigger-model functions (a JS value)
  fnStep,        \* step argument of the trigger-model functions
  fnOut          \* last application of a trigger-model function

vars == <<steps, req, run, slot, log, skillResults, skills, issued, overrides, resp,
          fnArg, fnStep, fnOut>>

(***************************************************************************)
(* JavaScript values: <<typeof, text>>.  === on primitives is equality of  *)
(* these pairs.                                                            *)
(***************************************************************************)
Undefined == <<"undefined", "">>
Null == <<"null", "">>
Str(s) == <<"string", s>>
JTrue == <<"boolean", "true">>
JFalse == <<"boolean", "false">>
Num0 == <<"number", "0">>
Num1 == <<"number", "1">>
EmptyObject == <<"object", "{}">>

\* !!v for the values above
Truthy(v) == v \notin {Undefined, Null, Str(""), JFalse, Num0}

PRE == Str("pre-implementation")
POST == Str("post-implementation")
CUSTOM == Str("custom")
ONDEMAND == Str("on-demand")

\* The HookTrigger type
HookTrigger == {PRE, POST, CUSTOM, ONDEMAND}

(***************************************************************************)
(* Texts (command, prompt) are sequences of characters, or Undefined.      *)
(***************************************************************************)
Chars == {" ", "a"}

MaxTextLen == 2

Texts == UNION {[1..n -> Chars] : n \in 0..MaxTextLen}

RECURSIVE TrimStart(_)
TrimStart(s) == IF s = <<>> THEN s
                ELSE IF Head(s) = " " THEN TrimStart(Tail(s)) ELSE s

RECURSIVE TrimEnd(_)
TrimEnd(s) == IF s = <<>> THEN s
              ELSE IF s[Len(s)] = " " THEN TrimEnd(SubSeq(s, 1, Len(s) - 1)) ELSE s

\* String.prototype.trim
Trim(s) == TrimEnd(TrimStart(s))

\* !!text for a text field that may be undefined
TextTruthy(t) == t # Undefined /\ t # <<>>

\* !!text?.trim()
TrimmedTruthy(t) == t # Undefined /\ Trim(t) # <<>>

(***************************************************************************)
(* The trigger model                                                       *)
(***************************************************************************)
normalizeHookTrigger_NoOnDemand(value) ==
  IF value = PRE \/ value = POST \/ value = CUSTOM THEN value ELSE POST

normalizeHookTrigger_PreAsDefault(value) ==
  IF value = POST \/ value = CUSTOM \/ value = ONDEMAND THEN value ELSE POST

normalizeHookTrigger(value) ==
  IF value = PRE \/ value = POST \/ value = CUSTOM \/ value = ONDEMAND
  THEN value
  ELSE POST

matchesTrigger_UnsetMatchesAny(step, trigger) ==
  step.trigger = trigger \/ ~Truthy(step.trigger)

matchesTrigger_CustomLenient(step, trigger) ==
  IF trigger = POST \/ trigger = CUSTOM
  THEN step.trigger = trigger \/ ~Truthy(step.trigger)
  ELSE step.trigger = trigger

matchesTrigger(step, trigger) ==
  IF trigger = POST
  THEN step.trigger = POST \/ ~Truthy(step.trigger)
  ELSE step.trigger = trigger

isRunnableCommandStep_KindIgnored(step) ==
  LET isPrompt == TextTruthy(step.prompt) /\ ~TrimmedTruthy(step.command)
  IN  ~isPrompt /\ TrimmedTruthy(step.command)

isRunnableCommandStep_NoTrim(step) ==
  LET isPrompt == step.kind = Str("prompt")
                  \/ (TextTruthy(step.prompt) /\ ~TextTruthy(step.command))
  IN  ~isPrompt /\ TextTruthy(step.command)

isRunnableCommandStep(step) ==
  LET isPrompt == step.kind = Str("prompt")
                  \/ (TextTruthy(step.prompt) /\ ~TrimmedTruthy(step.command))
  IN  ~isPrompt /\ TrimmedTruthy(step.command)

formatHookTriggerLabel(trigger) ==
  CASE trigger = PRE -> "Pre-Implementation"
    [] trigger = POST -> "Post-Implementation"
    [] trigger = CUSTOM -> "Custom"
    [] trigger = ONDEMAND -> "On-Demand"

(***************************************************************************)
(* Bounds and input spaces                                                 *)
(***************************************************************************)
\* Steps of a Config, where every Config is tried
MaxSteps == 2
\* Run requests, where requests run concurrently
MaxReq == 2
\* Run requests, where every Config or the report store is what varies
FewReq == 1

Req == 1..MaxReq
Worktrees == {"w1", "w2"}

StepId(i) == <<"step", i>>
MissingStepId == <<"step", 0>>

\* HookStep values of the trigger-model functions' domain
StepSpace ==
  [id : {StepId(1)},
   name : {Str("lint")},
   kind : {Undefined, Str("command"), Str("prompt")},
   command : Texts \cup {Undefined},
   prompt : Texts \cup {Undefined},
   trigger : HookTrigger \cup {Undefined, Null, Str(""), Str("other")},
   enabled : {JTrue}]

\* The steps a Config of the run model is made of: a command step, a step of
\* kind prompt that also carries a command, and a step that is a prompt only
\* by its fields
StepShapes ==
  {[kind |-> Undefined, command |-> <<"a">>, prompt |-> Undefined],
   [kind |-> Str("prompt"), command |-> <<"a">>, prompt |-> <<"a">>]}

StepTriggers == {Undefined, PRE, POST}
StepEnabled == {Undefined, JFalse}

MkStep(i, shape, trigger, enabled) ==
  [id |-> StepId(i), name |-> Str("lint"), kind |-> shape.kind, command |-> shape.command,
   prompt |-> shape.prompt, trigger |-> trigger, enabled |-> enabled]

\* Configs: up to MaxSteps steps with pairwise distinct ids, in order
Configs ==
  UNION {
    {[i \in 1..n |-> MkStep(i, f[i][1], f[i][2], f[i][3])] :
       f \in [1..n -> StepShapes \X StepTriggers \X StepEnabled]}
    : n \in 0..MaxSteps}

\* The Configs under which requests run concurrently: a plain command step
\* followed by any step
RunConfigs ==
  {<<MkStep(1, [kind |-> Undefined, command |-> <<"a">>, prompt |-> Undefined],
            Undefined, JTrue),
     MkStep(2, v[1], v[2], v[3])>> : v \in StepShapes \X StepTriggers \X StepEnabled}

\* body.trigger of a run-all request
ReqTriggers == {Undefined, PRE}

\* :stepId of a run-single request: the ids of the Config and an unknown one
StepIdInputs == {StepId(i) : i \in 0..Len(steps)}

NoRun == [worktreeId |-> "", trigger |-> Undefined, kind |-> "", steps |-> <<>>,
          status |-> "none"]
NoReq == [pc |-> "idle", kind |-> "", worktreeId |-> "", body |-> Undefined,
          trigger |-> Undefined, stepId |-> Undefined, error |-> "", runnable |-> <<>>]

(***************************************************************************)
(* HooksManager: runs (modelled from the specification, 4.5 and 5)         *)
(***************************************************************************)
\* The StepResult a Run starts with for one step
NewStepResult(step) ==
  [stepId |-> step.id,
   command |-> step.command,
   status |-> IF isRunnableCommandStep(step) THEN "pending" ELSE "skipped",
   startedAt |-> FALSE, completedAt |-> FALSE, durationMs |-> FALSE]

\* Aggregate status of a Run from its step results
AggregateStatus(results) ==
  IF \E i \in 1..Len(results) : results[i].status \in {"pending", "running"}
  THEN "running"
  ELSE IF \E i \in 1..Len(results) : results[i].status = "failed"
       THEN "failed"
       ELSE "passed"

\* A run for (w, trigger) has been created and has not completed
InFlight(w, trigger) ==
  \E r \in Req : /\ run[r] # NoRun
                 /\ run[r].worktreeId = w
                 /\ run[r].trigger = trigger
                 /\ run[r].status = "running"

\* runAll selects the enabled steps matching the trigger, in config order
SelectedSteps(trigger) ==
  SelectSeq(steps, LAMBDA step : step.enabled # JFalse /\ matchesTrigger(step, trigger))

\* hooksManager.getStatus(worktreeId)
getStatus(w) == IF slot[w] = 0 THEN "no-run" ELSE run[slot[w]].status

\* steps.find((s) => s.id === stepId): whether it finds a step, and the step
StepExists(stepId) == \E i \in 1..Len(steps) : steps[i].id = stepId

FindStep(stepId) ==
  steps[CHOOSE i \in 1..Len(steps) :
          steps[i].id = stepId /\ \A j \in 1..(i - 1) : steps[j].id # stepId]

(***************************************************************************)
(* Activity log events                                                     *)
(***************************************************************************)
GroupKey(w, trigger) == <<"hooks", w, trigger[2]>>

\* The detail text of an event, by its three forms and the numbers in it
Detail(form, failed, total) == [form |-> form, failed |-> failed, total |-> total]
NoDetail == Detail("absent", 0, 0)

\* What both run routes add to the activity log
Event(type, severity, detail, w, trigger, r, commandResults) ==
  [type |-> type, severity |-> severity,
   title |-> <<formatHookTriggerLabel(trigger),
               IF type = "hooks_started" THEN "hooks started" ELSE "hooks completed">>,
   detail |-> detail, worktreeId |-> w, groupKey |-> GroupKey(w, trigger),
   trigger |-> trigger, commandResults |-> commandResults, request |-> r]

\* The request to act next: requests are numbered in order of arrival
NextReq(r) == /\ req[r].pc = "idle"
              /\ \A q \in Req : q < r => req[q].pc # "idle"

(***************************************************************************)
(* HooksManager: the executor (modelled from the specification, 4.5)       *)
(***************************************************************************)
\* The executor spawns the first pending step when no step is running
StartNext_AllPending(results) ==
  [i \in 1..Len(results) |->
     IF results[i].status = "pending"
     THEN [results[i] EXCEPT !.status = "running", !.startedAt = TRUE]
     ELSE results[i]]

StartNext(results) ==
  IF /\ \A i \in 1..Len(results) : results[i].status # "running"
     /\ \E i \in 1..Len(results) : results[i].status = "pending"
  THEN LET i == CHOOSE k \in 1..Len(results) :
                  /\ results[k].status = "pending"
                  /\ \A j \in 1..(k - 1) : results[j].status # "pending"
       IN  [results EXCEPT ![i].status = "running", ![i].startedAt = TRUE]
  ELSE results

\* A Run over the selected steps, its first runnable step spawned
NewRun(w, trigger, kind, selected) ==
  LET results == StartNext([i \in 1..Len(selected) |-> NewStepResult(selected[i])])
  IN  [worktreeId |-> w, trigger |-> trigger, kind |-> kind,
       steps |-> results, status |-> AggregateStatus(results)]

\* How a spawned command ends: an exit code, or a failure to launch
Outcomes == {"exit 0", "exit 1", "launch failed"}

\* An executor that records the end of a command only when it was launched
Finished_LaunchUntimed(theRun, outcome) ==
  LET i == CHOOSE k \in 1..Len(theRun.steps) : theRun.steps[k].status = "running"
      results == StartNext([theRun.steps EXCEPT
                    ![i].status = IF outcome = "exit 0" THEN "passed" ELSE "failed",
                    ![i].completedAt = (outcome # "launch failed"),
                    ![i].durationMs = (outcome # "launch failed")])
  IN  [theRun EXCEPT !.steps = results, !.status = AggregateStatus(results)]

\* The running step's command has ended: its result is recorded and the next
\* pending step is spawned
Finished(theRun, outcome) ==
  LET i == CHOOSE k \in 1..Len(theRun.steps) : theRun.steps[k].status = "running"
      results == StartNext([theRun.steps EXCEPT
                    ![i].status = IF outcome = "exit 0" THEN "passed" ELSE "failed",
                    ![i].completedAt = TRUE,
                    ![i].durationMs = TRUE])
  IN  [theRun EXCEPT !.steps = results, !.status = AggregateStatus(results)]

\* hooksManager.runAll(worktreeId, trigger) up to its first suspension: the call
\* is rejected with Conflict while a run for the pair is in flight; otherwise
\* the Run is created and its first runnable step spawned
runAll(w, trigger) ==
  IF InFlight(w, trigger)
  THEN [error |-> "Conflict", run |-> NoRun]
  ELSE [error |-> "", run |-> NewRun(w, trigger, "runAll", SelectedSteps(trigger))]

\* hooksManager.runSingle(worktreeId, stepId) up to its first suspension:
\* NotFound, Conflict, or a Run of the one step, enabled or not
runSingle_EnabledOnly(w, stepId) ==
  IF ~StepExists(stepId) \/ FindStep(stepId).enabled = JFalse
  THEN [error |-> "NotFound", run |-> NoRun]
  ELSE LET step == FindStep(stepId)
           trigger == normalizeHookTrigger(step.trigger)
       IN  IF InFlight(w, trigger)
           THEN [error |-> "Conflict", run |-> NoRun]
           ELSE [error |-> "", run |-> NewRun(w, trigger, "runSingle", <<step>>)]

runSingle(w, stepId) ==
  IF ~StepExists(stepId)
  THEN [error |-> "NotFound", run |-> NoRun]
  ELSE LET step == FindStep(stepId)
           trigger == normalizeHookTrigger(step.trigger)
       IN  IF InFlight(w, trigger)
           THEN [error |-> "Conflict", run |-> NoRun]
           ELSE [error |-> "", run |-> NewRun(w, trigger, "runSingle", <<step>>)]

(***************************************************************************)
(* POST /api/worktrees/:id/hooks/run                                       *)
(***************************************************************************)
\* runnableSteps of the route: the enabled, matching, runnable steps
RunnableSteps(trigger) ==
  LET sel == SelectSeq(steps, LAMBDA step :
                 /\ step.enabled # JFalse
                 /\ matchesTrigger(step, trigger)
                 /\ isRunnableCommandStep(step))
  IN  [i \in 1..Len(sel) |-> [stepId |-> sel[i].id, command |-> sel[i].command]]

\* The hooks_started event of the run-all route
RunAllStarted(r, w, trigger, runnable) ==
  Event("hooks_started", "info", NoDetail, w, trigger, r,
        [i \in 1..Len(runnable) |->
           [stepId |-> runnable[i].stepId, command |-> runnable[i].command,
            status |-> "running"]])

\* The hooks_ran event of the run-all route, from the Run that runAll returned
RunAllRan(r, w, trigger, runnable, theRun) ==
  LET runnableStepIds == {runnable[i].stepId : i \in 1..Len(runnable)}
      triggerSteps == SelectSeq(theRun.steps, LAMBDA step : step.stepId \in runnableStepIds)
      failedCount == Len(SelectSeq(triggerSteps, LAMBDA step : step.status = "failed"))
      severity == IF failedCount > 0 \/ theRun.status = "failed" THEN "error" ELSE "success"
      detail == IF Len(triggerSteps) = 0
                THEN Detail("No runnable command hooks configured for this trigger.", 0, 0)
                ELSE IF failedCount > 0
                     THEN Detail("N of M command hooks failed.", failedCount, Len(triggerSteps))
                     ELSE Detail("M command hooks passed.", 0, Len(triggerSteps))
  IN  Event("hooks_ran", severity, detail, w, trigger, r, triggerSteps)

\* A run-all request arrives: the route up to the call of runAll, and runAll up
\* to its first suspension. runAll is rejected with Conflict, or creates the
\* Run; a Run with nothing to execute is returned at once and the route
\* completes.
RunAllRequest(r, w, body) ==
  LET trigger == normalizeHookTrigger(body)
      runnable == RunnableSteps(trigger)
      started == RunAllStarted(r, w, trigger, runnable)
      call == runAll(w, trigger)
      returned == call.error = "" /\ call.run.status # "running"
  IN  /\ NextReq(r)
      /\ req' = [req EXCEPT ![r] =
            [pc |-> IF call.error # "" THEN "rejected"
                    ELSE IF returned THEN "done" ELSE "awaiting",
             kind |-> "runAll", worktreeId |-> w, body |-> body, trigger |-> trigger,
             stepId |-> Undefined, error |-> call.error, runnable |-> runnable]]
      /\ log' = IF returned
                THEN log \o <<started, RunAllRan(r, w, trigger, runnable, call.run)>>
                ELSE Append(log, started)
      /\ IF call.error # ""
         THEN UNCHANGED <<run, slot>>
         ELSE /\ run' = [run EXCEPT ![r] = call.run]
              /\ slot' = [slot EXCEPT ![w] = r]
      /\ UNCHANGED <<steps, skillResults, resp, skills, issued, overrides, fnArg, fnStep, fnOut>>

(***************************************************************************)
(* POST /api/worktrees/:id/hooks/run/:stepId                               *)
(***************************************************************************)
\* The hooks_started event of the run-single route
RunSingleStarted(r, w, trigger, step) ==
  Event("hooks_started", "info", NoDetail, w, trigger, r,
        <<[stepId |-> step.id, command |-> step.command, status |-> "running"]>>)

\* The hooks_ran event of the run-single route, from the result runSingle returned
RunSingleRan(r, w, trigger, result) ==
  LET severity == IF result.status = "failed" THEN "error" ELSE "success"
      detail == IF result.status = "failed"
                THEN Detail("1 of 1 command hooks failed.", 1, 1)
                ELSE Detail("1 command hooks passed.", 0, 1)
  IN  Event("hooks_ran", severity, detail, w, trigger, r, <<result>>)

\* A run-single request arrives: the route up to the call of runSingle, and
\* runSingle up to its first suspension: NotFound, Conflict, or a Run of the one
\* step, which is returned at once when the step is not runnable.
RunSingleRequest(r, w, stepId) ==
  LET found == StepExists(stepId)
      step == FindStep(stepId)
      trigger == normalizeHookTrigger(IF found THEN step.trigger ELSE Undefined)
      announced == /\ found
                   /\ step.enabled # JFalse
                   /\ isRunnableCommandStep(step)
      call == runSingle(w, stepId)
      returned == call.error = "" /\ call.run.status # "running"
  IN  /\ NextReq(r)
      /\ req' = [req EXCEPT ![r] =
            [pc |-> IF call.error # "" THEN "rejected"
                    ELSE IF returned THEN "done" ELSE "awaiting",
             kind |-> "runSingle", worktreeId |-> w, body |-> Undefined,
             trigger |-> trigger, stepId |-> stepId, error |-> call.error,
             runnable |-> <<>>]]
      /\ log' = log \o (IF announced THEN <<RunSingleStarted(r, w, trigger, step)>> ELSE <<>>)
                    \o (IF returned
                        THEN <<RunSingleRan(r, w, trigger, call.run.steps[1])>>
                        ELSE <<>>)
      /\ IF call.error # ""
         THEN UNCHANGED <<run, slot>>
         ELSE /\ run' = [run EXCEPT ![r] = call.run]
              /\ slot' = [slot EXCEPT ![w] = r]
      /\ UNCHANGED <<steps, skillResults, resp, skills, issued, overrides, fnArg, fnStep, fnOut>>

(***************************************************************************)
(* A spawned command ends                                                  *)
(***************************************************************************)
\* The executor records the result and spawns the next step; after the last
\* step runAll / runSingle returns and the awaiting route completes
FinishStep(r, outcome) ==
  /\ req[r].pc = "awaiting"
  /\ run[r].status = "running"
  /\ LET theRun == Finished(run[r], outcome)
         returned == theRun.status # "running"
         w == req[r].worktreeId
         trigger == req[r].trigger
     IN  /\ run' = [run EXCEPT ![r] = theRun]
         /\ req' = [req EXCEPT ![r].pc = IF returned THEN "done" ELSE "awaiting"]
         /\ log' = IF ~returned THEN log
                   ELSE IF req[r].kind = "runAll"
                        THEN Append(log, RunAllRan(r, w, trigger, req[r].runnable, theRun))
                        ELSE Append(log, RunSingleRan(r, w, trigger, theRun.steps[1]))
  /\ UNCHANGED <<steps, slot, skillResults, resp, skills, issued, overrides, fnArg, fnStep, fnOut>>

(***************************************************************************)
(* GET /api/worktrees/:id/hooks/status                                     *)
(***************************************************************************)
Response(op, w, status, results) ==
  [op |-> op, worktreeId |-> w, status |-> status, results |-> results,
   prior |-> "", busy |-> FALSE]

NoResp == Response("", "", "", {})

GetStatus_Consuming(w) ==
  /\ resp' = Response("getStatus", w, getStatus(w), {})
  /\ slot' = [slot EXCEPT ![w] = 0]
  /\ UNCHANGED <<steps, req, run, log, skillResults, skills, issued, overrides, fnArg,
                 fnStep, fnOut>>

GetStatus(w) ==
  /\ resp' = Response("getStatus", w, getStatus(w), {})
  /\ UNCHANGED <<steps, req, run, slot, log, skillResults, skills, issued, overrides,
                 fnArg, fnStep, fnOut>>

(***************************************************************************)
(* POST /api/worktrees/:id/hooks/report                                    *)
(***************************************************************************)
\* The key a SkillResult is stored under
SameKey(x, w, result) ==
  /\ x.worktreeId = w
  /\ x.skillName = result.skillName
  /\ x.trigger = result.trigger

\* A store that guards the phase order: a start report does not replace a
\* terminal record
reportSkillResult_KeepTerminal(w, result) ==
  IF /\ result.status = "running"
     /\ \E x \in skillResults : SameKey(x, w, result) /\ x.status # "running"
  THEN skillResults
  ELSE {x \in skillResults : ~SameKey(x, w, result)}
         \cup {[worktreeId |-> w, skillName |-> result.skillName,
                trigger |-> result.trigger,
                status |-> result.status, success |-> result.success,
                summary |-> result.summary, content |-> result.content,
                filePath |-> result.filePath, reportedAt |-> result.reportedAt]}

\* hooksManager.reportSkillResult(worktreeId, result): the store after it. The
\* record replaces the one stored under its key (4.6)
reportSkillResult(w, result) ==
  {x \in skillResults : ~SameKey(x, w, result)}
    \cup {[worktreeId |-> w, skillName |-> result.skillName, trigger |-> result.trigger,
           status |-> result.status, success |-> result.success,
           summary |-> result.summary, content |-> result.content,
           filePath |-> result.filePath, reportedAt |-> result.reportedAt]}

\* hooksManager.getSkillResults(worktreeId)
getSkillResults(w) == {x \in skillResults : x.worktreeId = w}

\* new Date().toISOString(): the time the report is handled
Now == "now"

\* value || undefined
OrUndefined(v) == IF Truthy(v) THEN v ELSE Undefined

\* The route with `if (!success)` for the start notification
ReportResult_FalsyIsStart(body) ==
  IF ~Truthy(body.skillName)
  THEN [error |-> "skillName is required", result |-> Undefined]
  ELSE IF ~Truthy(body.success)
  THEN [error |-> "",
        result |-> [skillName |-> body.skillName, trigger |-> body.trigger,
                    status |-> "running", success |-> Undefined,
                    summary |-> Undefined, content |-> Undefined,
                    filePath |-> Undefined, reportedAt |-> Now]]
  ELSE IF body.success[1] # "boolean"
  THEN [error |-> "success must be a boolean", result |-> Undefined]
  ELSE [error |-> "",
        result |-> [skillName |-> body.skillName, trigger |-> body.trigger,
                    status |-> IF body.success = JTrue THEN "passed" ELSE "failed",
                    success |-> body.success,
                    summary |-> OrUndefined(body.summary),
                    content |-> OrUndefined(body.content),
                    filePath |-> OrUndefined(body.filePath),
                    reportedAt |-> Now]]

\* What the route makes of a body: the error it answers with, or the result
\* it hands to reportSkillResult
ReportResult(body) ==
  IF ~Truthy(body.skillName)
  THEN [error |-> "skillName is required", result |-> Undefined]
  ELSE IF body.success = Undefined \/ body.success = Null
  THEN [error |-> "",
        result |-> [skillName |-> body.skillName, trigger |-> body.trigger,
                    status |-> "running", success |-> Undefined,
                    summary |-> Undefined, content |-> Undefined,
                    filePath |-> Undefined, reportedAt |-> Now]]
  ELSE IF body.success[1] # "boolean"
  THEN [error |-> "success must be a boolean", result |-> Undefined]
  ELSE [error |-> "",
        result |-> [skillName |-> body.skillName, trigger |-> body.trigger,
                    status |-> IF body.success = JTrue THEN "passed" ELSE "failed",
                    success |-> body.success,
                    summary |-> OrUndefined(body.summary),
                    content |-> OrUndefined(body.content),
                    filePath |-> OrUndefined(body.filePath),
                    reportedAt |-> Now]]

\* The status stored under a key, for the history kept beside the response
StoredStatus(w, skillName, trigger) ==
  IF \E x \in skillResults :
       x.worktreeId = w /\ x.skillName = skillName /\ x.trigger = trigger
  THEN (CHOOSE x \in skillResults :
          x.worktreeId = w /\ x.skillName = skillName /\ x.trigger = trigger).status
  ELSE "none"

\* Whether a run of worktree w is in flight
RunInFlight(w) == \E r \in Req : run[r].status = "running" /\ run[r].worktreeId = w

\* The route handled only once no run of the worktree is in flight
Report_WhenIdle(w, body) ==
  LET out == ReportResult(body)
  IN  /\ ~RunInFlight(w)
      /\ skillResults' = IF out.error = ""
                         THEN reportSkillResult(w, out.result)
                         ELSE skillResults
      /\ resp' = IF out.error = ""
                 THEN [Response("report", "", "success", {})
                       EXCEPT !.prior = StoredStatus(w, body.skillName, body.trigger),
                              !.busy = RunInFlight(w)]
                 ELSE Response("report", "", out.error, {})
      /\ UNCHANGED <<steps, req, run, slot, log, skills, issued, overrides, fnArg, fnStep, fnOut>>

Report(w, body) ==
  LET out == ReportResult(body)
  IN  /\ skillResults' = IF out.error = ""
                         THEN reportSkillResult(w, out.result)
                         ELSE skillResults
      /\ resp' = IF out.error = ""
                 THEN [Response("report", "", "success", {})
                       EXCEPT !.prior = StoredStatus(w, body.skillName, body.trigger),
                              !.busy = RunInFlight(w)]
                 ELSE Response("report", "", out.error, {})
      /\ UNCHANGED <<steps, req, run, slot, log, skills, issued, overrides, fnArg, fnStep, fnOut>>

(***************************************************************************)
(* GET /api/worktrees/:id/hooks/skill-results                              *)
(***************************************************************************)
GetSkillResults(w) ==
  /\ resp' = Response("getSkillResults", w, "", getSkillResults(w))
  /\ UNCHANGED <<steps, req, run, slot, log, skillResults, skills, issued, overrides,
                 fnArg, fnStep, fnOut>>

\* The key reports of every kind are sent for
ReportKey == <<"w1", Str("review"), PRE>>

\* The three keys that differ from it in the worktree, the skill name or the
\* trigger
OtherKeys ==
  {<<"w2", Str("review"), PRE>>, <<"w1", Str("lint"), PRE>>,
   <<"w1", Str("review"), Undefined>>}

ReportKeys == {ReportKey} \cup OtherKeys

SuccessInputs == {Undefined, Null, JTrue, JFalse, Str("true"), Num0}

\* A body with a summary, an empty content and no filePath
MkBody(skillName, trigger, success) ==
  [skillName |-> skillName, trigger |-> trigger, success |-> success,
   summary |-> Str("ok"), content |-> Str(""), filePath |-> Undefined]

\* The report requests, <<worktree, body>>: every success value for ReportKey;
\* a start report and a passing result for the other keys and for a missing or
\* empty skillName
ReportInputs ==
  {<<ReportKey[1], MkBody(ReportKey[2], ReportKey[3], success)>> :
     success \in SuccessInputs}
  \cup {<<k[1], MkBody(k[2], k[3], success)>> :
          k \in OtherKeys \cup {<<"w1", Undefined, PRE>>, <<"w1", Str(""), PRE>>},
          success \in {Undefined, JTrue}}

(***************************************************************************)
(* HooksManager: the Config Store (modelled from the specification, 3, 4.2 *)
(* and 7)                                                                  *)
(***************************************************************************)
\* Step ids the id source can draw
MaxIds == 3

StepIds(config) == {config[i].id : i \in 1..Len(config)}

\* An id source that only avoids the ids of the stored steps
FreshIds_NotStored == {StepId(i) : i \in 1..MaxIds} \ StepIds(steps)

\* The ids addStep may assign: none that was assigned or stored before
FreshIds == {StepId(i) : i \in 1..MaxIds} \ (issued \cup StepIds(steps))

\* addStep's own validation (4.2)
addStepError(name, command, options) ==
  IF ~Truthy(name) THEN "Validation"
  ELSE IF options.kind # Str("prompt") /\ ~TextTruthy(command) THEN "Validation"
  ELSE IF options.kind = Str("prompt") /\ ~TextTruthy(options.prompt) THEN "Validation"
  ELSE ""

\* The step addStep appends, with the id drawn for it
NewStep(id, name, command, options) ==
  [id |-> id, name |-> name, kind |-> options.kind, command |-> command,
   prompt |-> options.prompt, trigger |-> normalizeHookTrigger(options.trigger),
   enabled |-> JTrue]

\* A field updateStep's partialFields does not give
Absent == <<"absent", "">>

\* updateStep: the step with the given fields merged in; the id is stable (3)
Merged(step, updates) ==
  [id |-> step.id,
   name |-> step.name,
   kind |-> step.kind,
   command |-> step.command,
   prompt |-> step.prompt,
   trigger |-> IF updates.trigger = Absent THEN step.trigger ELSE updates.trigger,
   enabled |-> IF updates.enabled = Absent THEN step.enabled ELSE updates.enabled]

updateStep(stepId, updates) ==
  IF ~StepExists(stepId)
  THEN [error |-> "NotFound", steps |-> steps]
  ELSE [error |-> "",
        steps |-> [i \in 1..Len(steps) |->
                     IF steps[i].id = stepId THEN Merged(steps[i], updates)
                     ELSE steps[i]]]

RECURSIVE Without(_, _)
Without(config, stepId) ==
  IF config = <<>> THEN <<>>
  ELSE IF Head(config).id = stepId THEN Without(Tail(config), stepId)
  ELSE <<Head(config)>> \o Without(Tail(config), stepId)

\* removeStep: removing an absent id returns the unchanged config (4.2)
removeStep(config, stepId) == Without(config, stepId)

\* saveConfig: a candidate is refused unless it is a Config, whose step ids
\* are pairwise distinct (3)
saveConfigError(candidate) ==
  IF candidate.shape # "config" THEN "Validation"
  ELSE IF \E i, j \in 1..Len(candidate.steps) :
            i # j /\ candidate.steps[i].id = candidate.steps[j].id
  THEN "Validation"
  ELSE ""

(***************************************************************************)
(* Config routes: POST /api/hooks/steps, PATCH and DELETE                  *)
(* /api/hooks/steps/:stepId, PUT /api/hooks/config.  condition and         *)
(* conditionTitle are passed through and read by nothing modelled here.    *)
(***************************************************************************)
\* The check that asks a prompt step for a command too
AddStepError_CommandRequired(body) ==
  LET isPrompt == body.kind = Str("prompt")
  IN  IF \/ ~Truthy(body.name)
         \/ ~TextTruthy(body.command)
         \/ (isPrompt /\ ~TextTruthy(body.prompt))
      THEN IF isPrompt THEN "name and prompt are required"
                       ELSE "name and command are required"
      ELSE ""

\* The error POST /api/hooks/steps answers a body with, "" when it has none
AddStepError(body) ==
  LET isPrompt == body.kind = Str("prompt")
  IN  IF \/ ~Truthy(body.name)
         \/ (~isPrompt /\ ~TextTruthy(body.command))
         \/ (isPrompt /\ ~TextTruthy(body.prompt))
      THEN IF isPrompt THEN "name and prompt are required"
                       ELSE "name and command are required"
      ELSE ""

\* The command the route hands to addStep
AddStepCommand(body) == IF body.kind = Str("prompt") THEN <<>> ELSE body.command

AddStepOptions(body) == [kind |-> body.kind, prompt |-> body.prompt, trigger |-> body.trigger]

AddStep(body) ==
  /\ IF AddStepError(body) # ""
     THEN /\ resp' = Response("addStep", "", AddStepError(body), {})
          /\ UNCHANGED <<steps, issued>>
     ELSE IF addStepError(body.name, AddStepCommand(body), AddStepOptions(body)) # ""
     THEN /\ resp' = Response("addStep", "",
                              addStepError(body.name, AddStepCommand(body),
                                           AddStepOptions(body)), {})
          /\ UNCHANGED <<steps, issued>>
     ELSE /\ Len(steps) < MaxSteps
          /\ \E id \in FreshIds :
               /\ steps' = Append(steps, NewStep(id, body.name, AddStepCommand(body),
                                                 AddStepOptions(body)))
               /\ issued' = issued \cup {id}
          /\ resp' = Response("addStep", "", "success", {})
  /\ UNCHANGED <<req, run, slot, log, skillResults, skills, overrides, fnArg, fnStep, fnOut>>

UpdateStep(stepId, updates) ==
  LET out == updateStep(stepId, updates)
  IN  /\ steps' = out.steps
      /\ resp' = Response("updateStep", "",
                          IF out.error = "" THEN "success" ELSE out.error, {})
      /\ UNCHANGED <<req, run, slot, log, skillResults, skills, issued, overrides,
                     fnArg, fnStep, fnOut>>

\* The route that answers an absent id with an error
RemoveStep_Strict(stepId) ==
  /\ steps' = removeStep(steps, stepId)
  /\ resp' = [Response("removeStep", "",
                       IF StepExists(stepId) THEN "success" ELSE "NotFound", {})
              EXCEPT !.prior = IF StepExists(stepId) THEN "present" ELSE "absent"]
  /\ UNCHANGED <<req, run, slot, log, skillResults, skills, issued, overrides,
                 fnArg, fnStep, fnOut>>

\* Beside the response: whether the id was in the Config
RemoveStep(stepId) ==
  /\ steps' = removeStep(steps, stepId)
  /\ resp' = [Response("removeStep", "", "success", {})
              EXCEPT !.prior = IF StepExists(stepId) THEN "present" ELSE "absent"]
  /\ UNCHANGED <<req, run, slot, log, skillResults, skills, issued, overrides,
                 fnArg, fnStep, fnOut>>

SaveConfig(candidate) ==
  /\ IF saveConfigError(candidate) # ""
     THEN /\ resp' = Response("saveConfig", "", saveConfigError(candidate), {})
          /\ UNCHANGED <<steps, skills, issued>>
     ELSE /\ steps' = candidate.steps
          /\ skills' = candidate.skills
          /\ issued' = issued \cup StepIds(candidate.steps)
          /\ resp' = Response("saveConfig", "", "success", {})
  /\ UNCHANGED <<req, run, slot, log, skillResults, overrides, fnArg, fnStep, fnOut>>

\* Bodies of POST /api/hooks/steps: every combination of a missing, empty or
\* given name and command and an empty or given prompt, with and without kind
\* prompt
AddStepGrid ==
  [name : {Undefined, Str(""), Str("lint")},
   kind : {Undefined, Str("prompt")},
   command : {Undefined, <<>>, <<"a">>},
   prompt : {<<>>, <<"a">>},
   trigger : {Undefined}]

\* A command step without and with a trigger, and a body without a name
AddStepFew ==
  {[name |-> Str("lint"), kind |-> Undefined, command |-> <<"a">>,
    prompt |-> Undefined, trigger |-> Undefined],
   [name |-> Str("lint"), kind |-> Undefined, command |-> <<"a">>,
    prompt |-> Undefined, trigger |-> PRE],
   [name |-> Undefined, kind |-> Undefined, command |-> <<"a">>,
    prompt |-> Undefined, trigger |-> Undefined]}

\* :stepId of the step routes
StoreIdInputs == {StepId(i) : i \in 1..MaxIds}

\* Bodies of PATCH /api/hooks/steps/:stepId: one disables the step, one gives
\* a trigger and an id
UpdateInputs ==
  {[id |-> Absent, trigger |-> Absent, enabled |-> JFalse],
   [id |-> StepId(1), trigger |-> PRE, enabled |-> Absent]}

PlainStep(i) ==
  MkStep(i, [kind |-> Undefined, command |-> <<"a">>, prompt |-> Undefined],
         Undefined, JTrue)

\* Bodies of PUT /api/hooks/config: not an object, an empty Config, Configs of
\* one and of two steps, and one with an id used twice
Candidates ==
  {[shape |-> "not an object", steps |-> <<>>, skills |-> {}],
   [shape |-> "config", steps |-> <<>>, skills |-> {}],
   [shape |-> "config", steps |-> <<PlainStep(2)>>, skills |-> {}],
   [shape |-> "config", steps |-> <<PlainStep(3), PlainStep(1)>>, skills |-> {}],
   [shape |-> "config", steps |-> <<PlainStep(1), PlainStep(1)>>, skills |-> {}]}

(***************************************************************************)
(* HooksManager: skill hooks and the effective view (modelled from the     *)
(* specification, 3, 4.3 and 4.4)                                          *)
(***************************************************************************)
AtKey(x, skillName, trigger) == x.skillName = skillName /\ x.trigger = trigger

\* importSkill that stores the trigger as it is given
importSkill_RawTrigger(skillName, trigger, condition) ==
  {x \in skills : ~AtKey(x, skillName, trigger)}
    \cup {[skillName |-> skillName, trigger |-> trigger,
           enabled |-> JTrue, condition |-> condition]}

\* importSkill: creates or replaces the instance at (skillName, normalized
\* trigger)
importSkill(skillName, trigger, condition) ==
  {x \in skills : ~AtKey(x, skillName, normalizeHookTrigger(trigger))}
    \cup {[skillName |-> skillName, trigger |-> normalizeHookTrigger(trigger),
           enabled |-> JTrue, condition |-> condition]}

\* The instances removeSkill and toggleSkill act on: the one at the trigger
\* when a trigger is given, every instance of the name when none is
Scoped(x, name, trigger) ==
  /\ x.skillName = name
  /\ trigger # Undefined => x.trigger = trigger

removeSkill(name, trigger) == {x \in skills : ~Scoped(x, name, trigger)}

toggleSkill(name, enabled, trigger) ==
  {IF Scoped(x, name, trigger) THEN [x EXCEPT !.enabled = enabled] ELSE x : x \in skills}

\* getEffectiveSkills(worktreeId, notesManager): the global instances, each
\* with the override notesManager holds for it in that worktree applied
Overridden(x, w) ==
  IF \E o \in overrides[w] : AtKey(o, x.skillName, x.trigger)
  THEN [x EXCEPT !.enabled =
          (CHOOSE o \in overrides[w] : AtKey(o, x.skillName, x.trigger)).enabled]
  ELSE x

getEffectiveSkills(w) == {Overridden(x, w) : x \in skills}

\* notesManager takes an override for an instance in one worktree
SetOverride(w, skillName, trigger, enabled) ==
  /\ overrides' = [overrides EXCEPT ![w] =
                     {o \in @ : ~AtKey(o, skillName, trigger)}
                       \cup {[skillName |-> skillName, trigger |-> trigger,
                              enabled |-> enabled]}]
  /\ UNCHANGED <<steps, req, run, slot, log, skillResults, skills, issued, resp,
                 fnArg, fnStep, fnOut>>

(***************************************************************************)
(* Skill routes: POST /api/hooks/skills/import, DELETE and PATCH           *)
(* /api/hooks/skills/:name, GET /api/worktrees/:id/hooks/effective-config  *)
(***************************************************************************)
ImportSkill(body) ==
  /\ IF ~Truthy(body.skillName)
     THEN /\ resp' = Response("importSkill", "", "skillName is required", {})
          /\ skills' = skills
     ELSE /\ skills' = importSkill(body.skillName, body.trigger, body.condition)
          /\ resp' = Response("importSkill", "", "success", {})
  /\ UNCHANGED <<steps, req, run, slot, log, skillResults, issued, overrides,
                 fnArg, fnStep, fnOut>>

\* The route that does not pass the trigger query on
RemoveSkill_NameOnly(name, trigger) ==
  /\ skills' = removeSkill(name, Undefined)
  /\ resp' = [Response("removeSkill", "", "success", {})
              EXCEPT !.prior = IF \E x \in skills : Scoped(x, name, trigger)
                               THEN "present" ELSE "absent"]
  /\ UNCHANGED <<steps, req, run, slot, log, skillResults, issued, overrides,
                 fnArg, fnStep, fnOut>>

\* Beside the response: whether an instance was there to remove
RemoveSkill(name, trigger) ==
  /\ skills' = removeSkill(name, trigger)
  /\ resp' = [Response("removeSkill", "", "success", {})
              EXCEPT !.prior = IF \E x \in skills : Scoped(x, name, trigger)
                               THEN "present" ELSE "absent"]
  /\ UNCHANGED <<steps, req, run, slot, log, skillResults, issued, overrides,
                 fnArg, fnStep, fnOut>>

ToggleSkill(name, body) ==
  /\ IF body.enabled[1] # "boolean"
     THEN /\ resp' = Response("toggleSkill", "", "enabled (boolean) is required", {})
          /\ skills' = skills
     ELSE /\ skills' = toggleSkill(name, body.enabled, body.trigger)
          /\ resp' = Response("toggleSkill", "", "success", {})
  /\ UNCHANGED <<steps, req, run, slot, log, skillResults, issued, overrides,
                 fnArg, fnStep, fnOut>>

\* The route that assigns the effective skills to the Config it was handed
GetEffectiveSkills_Assigning(w) ==
  /\ resp' = Response("getEffectiveSkills", w, "", getEffectiveSkills(w))
  /\ skills' = getEffectiveSkills(w)
  /\ UNCHANGED <<steps, req, run, slot, log, skillResults, issued, overrides,
                 fnArg, fnStep, fnOut>>

GetEffectiveSkills(w) ==
  /\ resp' = Response("getEffectiveSkills", w, "", getEffectiveSkills(w))
  /\ UNCHANGED <<steps, req, run, slot, log, skillResults, skills, issued, overrides,
                 fnArg, fnStep, fnOut>>

SkillNames == {Str("review"), Str("lint")}

\* Bodies of the import route: review with an absent, a given or an unknown
\* trigger and with or without a condition; lint, and a missing and an empty
\* skillName, with no trigger
ImportInputs ==
  [skillName : {Str("review")}, trigger : {Undefined, PRE, Str("other")},
   condition : {Undefined, Str("c")}]
  \cup [skillName : {Str("lint"), Undefined, Str("")}, trigger : {Undefined},
        condition : {Undefined}]

\* ?trigger= of the remove route
RemoveTriggers == {Undefined, PRE, POST}

\* Bodies of the toggle route
ToggleInputs ==
  [enabled : {JTrue, JFalse, Str("true"), Undefined}, trigger : {Undefined, PRE}]

(***************************************************************************)
(* Specifications                                                          *)
(***************************************************************************)
InitRuns ==
  /\ req = [r \in Req |-> NoReq]
  /\ run = [r \in Req |-> NoRun]
  /\ slot = [w \in Worktrees |-> 0]
  /\ log = <<>>

InitReports ==
  /\ skillResults = {}
  /\ resp = NoResp

\* No skill is imported and no override is held; the ids of the Config's steps
\* are the ids assigned so far
NoOverrides == [w \in Worktrees |-> {}]

InitStore ==
  /\ skills = {}
  /\ issued = {steps[i].id : i \in 1..Len(steps)}
  /\ overrides = NoOverrides

InitFn ==
  /\ fnArg = Undefined
  /\ fnStep = MkStep(1, [kind |-> Undefined, command |-> <<"a">>, prompt |-> Undefined],
                     Undefined, JTrue)
  /\ fnOut = [op |-> "", value |-> Undefined]

\* Concurrent run requests
Init ==
  /\ steps \in RunConfigs
  /\ InitRuns
  /\ InitReports
  /\ InitStore
  /\ InitFn

Next ==
  \/ \E r \in Req, w \in Worktrees, body \in ReqTriggers : RunAllRequest(r, w, body)
  \/ \E r \in Req, w \in Worktrees, stepId \in StepIdInputs : RunSingleRequest(r, w, stepId)
  \/ \E r \in Req, outcome \in Outcomes : FinishStep(r, outcome)

Spec == Init /\ [][Next]_vars

\* Run requests over every Config of the bounded space
InitConfigs ==
  /\ steps \in Configs
  /\ InitRuns
  /\ InitReports
  /\ InitStore
  /\ InitFn

NextConfigs ==
  \/ \E r \in 1..FewReq, w \in Worktrees, body \in ReqTriggers : RunAllRequest(r, w, body)
  \/ \E r \in 1..FewReq, w \in Worktrees, stepId \in StepIdInputs :
        RunSingleRequest(r, w, stepId)
  \/ \E r \in Req, outcome \in Outcomes : FinishStep(r, outcome)

SpecConfigs == InitConfigs /\ [][NextConfigs]_vars

\* Concurrent run requests over a Config of two command steps, and status reads
InitStatus ==
  /\ steps = <<MkStep(1, [kind |-> Undefined, command |-> <<"a">>, prompt |-> Undefined],
                      Undefined, JTrue),
               MkStep(2, [kind |-> Str("command"), command |-> <<"a">>, prompt |-> Undefined],
                      PRE, JTrue)>>
  /\ InitRuns
  /\ InitReports
  /\ InitStore
  /\ InitFn

NextStatus ==
  \/ Next
  \/ \E w \in Worktrees : GetStatus(w)

SpecStatus == InitStatus /\ [][NextStatus]_vars

\* Self-reports and reads of them, beside run-all requests for worktree w1 over
\* one command step that exits with 0
InitReport ==
  /\ steps = <<MkStep(1, [kind |-> Undefined, command |-> <<"a">>, prompt |-> Undefined],
                      Undefined, JTrue)>>
  /\ InitRuns
  /\ InitReports
  /\ InitStore
  /\ InitFn

NextReport ==
  \/ \E in \in ReportInputs : Report(in[1], in[2])
  \/ \E w \in Worktrees : GetSkillResults(w)
  \/ \E r \in 1..FewReq : RunAllRequest(r, "w1", Undefined)
  \/ \E r \in Req : FinishStep(r, "exit 0")

SpecReport == InitReport /\ [][NextReport]_vars

\* Step additions over every body of the grid, and removals
InitAdd ==
  /\ steps = <<>>
  /\ InitRuns
  /\ InitReports
  /\ InitStore
  /\ InitFn

NextAdd ==
  \/ \E body \in AddStepGrid : AddStep(body)
  \/ \E stepId \in StoreIdInputs : RemoveStep(stepId)

SpecAdd == InitAdd /\ [][NextAdd]_vars

\* Named bodies of every kind, with an empty, a blank and a plain command
AddStepKinds ==
  [name : {Str("lint")},
   kind : {Undefined, Str("command"), Str("prompt")},
   command : {<<>>, <<" ">>, <<"a">>},
   prompt : {<<>>, <<"a">>},
   trigger : {Undefined}]

\* Steps enter the config through the add-step route alone
NextAccept ==
  \/ \E body \in AddStepKinds : AddStep(body)
  \/ \E stepId \in StoreIdInputs : RemoveStep(stepId)

SpecAccept == InitAdd /\ [][NextAccept]_vars

\* The Config Store under additions, updates, removals and saves
NextStore ==
  \/ \E body \in AddStepFew : AddStep(body)
  \/ \E stepId \in StoreIdInputs, updates \in UpdateInputs : UpdateStep(stepId, updates)
  \/ \E stepId \in StoreIdInputs : RemoveStep(stepId)
  \/ \E candidate \in Candidates : SaveConfig(candidate)

SpecStore == InitAdd /\ [][NextStore]_vars

\* Skill hooks: imports, removals, toggles, overrides for review at
\* pre-implementation, and reads of the effective view
NextSkills ==
  \/ \E body \in ImportInputs : ImportSkill(body)
  \/ \E name \in SkillNames, trigger \in RemoveTriggers : RemoveSkill(name, trigger)
  \/ \E name \in SkillNames, body \in ToggleInputs : ToggleSkill(name, body)
  \/ \E w \in Worktrees, enabled \in {JTrue, JFalse} :
        SetOverride(w, Str("review"), PRE, enabled)
  \/ \E w \in Worktrees : GetEffectiveSkills(w)

SpecSkills == InitAdd /\ [][NextSkills]_vars

(***************************************************************************)
(* The trigger-model functions applied to every input of a bounded space   *)
(***************************************************************************)
\* JS values a caller can send where a trigger is expected
JSValues ==
  HookTrigger \cup {Undefined, Null, Str(""), Str("Custom"), Str("other"),
                    Num0, Num1, JTrue, JFalse, EmptyObject}

JBool(b) == IF b THEN JTrue ELSE JFalse

ApplyNormalize ==
  /\ fnOut' = [op |-> "normalize", value |-> normalizeHookTrigger(fnArg)]
  /\ UNCHANGED <<steps, req, run, slot, log, skillResults, resp, skills, issued, overrides,
                 fnArg, fnStep>>

ApplyMatches ==
  /\ fnArg \in HookTrigger
  /\ fnOut' = [op |-> "matches", value |-> JBool(matchesTrigger(fnStep, fnArg))]
  /\ UNCHANGED <<steps, req, run, slot, log, skillResults, resp, skills, issued, overrides,
                 fnArg, fnStep>>

ApplyIsRunnable ==
  /\ fnOut' = [op |-> "isRunnable", value |-> JBool(isRunnableCommandStep(fnStep))]
  /\ UNCHANGED <<steps, req, run, slot, log, skillResults, resp, skills, issued, overrides,
                 fnArg, fnStep>>

InitTrigger ==
  /\ steps = <<>>
  /\ InitRuns
  /\ InitReports
  /\ InitStore
  /\ fnArg \in JSValues
  /\ fnStep \in StepSpace
  /\ fnOut = [op |-> "", value |-> Undefined]

NextTrigger == ApplyNormalize \/ ApplyMatches \/ ApplyIsRunnable

SpecTrigger == InitTrigger /\ [][NextTrigger]_vars

(***************************************************************************)
(* C10: normalize(value) returns value unchanged when it is one of the     *)
(* four trigger literals, and post-implementation for every other input    *)
(* (absent, null, empty, another string, a non-string).                    *)
(***************************************************************************)
C10_NormalizeTotal ==
  fnOut.op = "normalize" =>
    /\ fnArg \in {Str("pre-implementation"), Str("post-implementation"),
                  Str("custom"), Str("on-demand")} => fnOut.value = fnArg
    /\ fnArg \notin {Str("pre-implementation"), Str("post-implementation"),
                     Str("custom"), Str("on-demand")}
         => fnOut.value = Str("post-implementation")

\* A non-string input has been normalized to post-implementation
C10_Witness ==
  /\ fnOut.op = "normalize"
  /\ fnArg = EmptyObject
  /\ fnOut.value = POST

(***************************************************************************)
(* C1: per (worktree, trigger) at most one run is in flight; a run-all     *)
(* request for (w, t) that arrives while an earlier run for (w, t) is in   *)
(* flight is rejected with Conflict, and only then; the rejected request   *)
(* leaves every Run, every stored slot and every other request as they     *)
(* were, so the earlier run goes on to complete.                           *)
(***************************************************************************)
\* The trigger a request asks for: the literal it names, else the default
RequestedTrigger(body) ==
  IF body \in {Str("pre-implementation"), Str("post-implementation"),
               Str("custom"), Str("on-demand")}
  THEN body
  ELSE Str("post-implementation")

\* Request q's run is in flight for worktree w and trigger t
RunningFor(q, w, t) ==
  /\ req[q].pc = "awaiting"
  /\ run[q].status = "running"
  /\ req[q].worktreeId = w
  /\ IF req[q].kind = "runAll" THEN RequestedTrigger(req[q].body) = t
                               ELSE run[q].trigger = t

C1_OnePerPair ==
  \A q1, q2 \in Req :
    (/\ q1 # q2
     /\ run[q1].status = "running"
     /\ run[q2].status = "running"
     /\ run[q1].worktreeId = run[q2].worktreeId)
    => run[q1].trigger # run[q2].trigger

C1_ConflictStep ==
  \A r \in Req :
    (req[r].pc = "idle" /\ req'[r].pc # "idle" /\ req'[r].kind = "runAll") =>
      LET w == req'[r].worktreeId
          t == RequestedTrigger(req'[r].body)
          busy == \E q \in Req : RunningFor(q, w, t)
      IN  /\ busy <=> (req'[r].pc = "rejected" /\ req'[r].error = "Conflict")
          /\ busy => /\ run' = run
                     /\ slot' = slot
                     /\ \A q \in Req \ {r} : req'[q] = req[q]
          /\ ~busy => /\ run'[r].status # "none"
                      /\ run'[r].worktreeId = w
                      /\ run'[r].trigger = t

C1_AtMostOneInFlight == [](C1_OnePerPair) /\ [][C1_ConflictStep]_vars

\* A second run-all request was rejected with Conflict and the first run has
\* since completed with both of its steps passed
C1_Witness ==
  /\ req[1].kind = "runAll" /\ req[1].pc = "done"
  /\ req[2].kind = "runAll" /\ req[2].pc = "rejected" /\ req[2].error = "Conflict"
  /\ req[1].worktreeId = req[2].worktreeId
  /\ run[1].status = "passed"
  /\ Len(run[1].steps) = 2
  /\ \A i \in 1..2 : run[1].steps[i].status = "passed"

(***************************************************************************)
(* Reading a Run against the Config it was built from                      *)
(***************************************************************************)
\* The Config step a step result belongs to
ConfigStep(stepId) == steps[CHOOSE i \in 1..Len(steps) : steps[i].id = stepId]

\* A step result that was executed, or is being executed
Executed(result) == result.status \in {"running", "passed", "failed"}

\* The step is a command: its kind is not prompt and its command has a
\* character that is not white space
IsCommand(step) ==
  /\ step.kind # Str("prompt")
  /\ step.command # Undefined
  /\ \E i \in 1..Len(step.command) : step.command[i] # " "

HooksRan(r) == {i \in 1..Len(log) : log[i].type = "hooks_ran" /\ log[i].request = r}

ConfiguredFor(step, t) ==
  \/ step.trigger = t
  \/ step.trigger = Undefined /\ t = Str("post-implementation")

Ids(seq) == [i \in 1..Len(seq) |-> seq[i].stepId]

C6_RunSelection ==
  \A r \in Req :
    (run[r].status # "none" /\ run[r].kind = "runAll") =>
      LET t == RequestedTrigger(req[r].body)
          chosen == SelectSeq(steps, LAMBDA step :
                       step.enabled # JFalse /\ ConfiguredFor(step, t))
          commands == SelectSeq(chosen, LAMBDA step : IsCommand(step))
          results == run[r].steps
      IN  /\ Ids(results) = [i \in 1..Len(chosen) |-> chosen[i].id]
          /\ \A i \in 1..Len(results) :
                Executed(results[i]) => IsCommand(ConfigStep(results[i].stepId))
          /\ run[r].status # "running" =>
                \A i \in 1..Len(results) :
                   IsCommand(ConfigStep(results[i].stepId)) => Executed(results[i])
          /\ \A i \in 1..Len(log) :
                (log[i].type = "hooks_started" /\ log[i].request = r) =>
                   Ids(log[i].commandResults) = [k \in 1..Len(commands) |-> commands[k].id]

\* A completed run-all over a Config of two steps naming no trigger, the first
\* disabled: only the second is listed, and it was executed
C6_Witness ==
  \E r \in Req :
    /\ Len(steps) = 2
    /\ steps[1].enabled = JFalse /\ steps[1].trigger = Undefined
    /\ steps[2].enabled = Undefined /\ steps[2].trigger = Undefined
    /\ run[r].kind = "runAll" /\ run[r].trigger = POST
    /\ run[r].status = "failed"
    /\ Ids(run[r].steps) = <<steps[2].id>>

(***************************************************************************)
(* C7: within one Run the runnable steps are executed one at a time in     *)
(* config order: at most one step result is running, and a step result     *)
(* has entered running only if every runnable step before it has reached   *)
(* passed or failed.                                                       *)
(***************************************************************************)
C7_Sequential ==
  \A r \in Req :
    LET results == run[r].steps
    IN  /\ Cardinality({i \in 1..Len(results) : results[i].status = "running"}) <= 1
        /\ \A i, j \in 1..Len(results) :
             (i < j /\ Executed(results[j]) /\ IsCommand(ConfigStep(results[i].stepId)))
             => results[i].status \in {"passed", "failed"}

\* The second command step of a Run is running after the first has failed
C7_Witness ==
  \E r \in Req :
    /\ Len(run[r].steps) = 2
    /\ run[r].steps[1].status = "failed"
    /\ run[r].steps[2].status = "running"

(***************************************************************************)
(* C8: a run-single request for a step id of the Config executes that      *)
(* step and no other, whether the step is enabled or disabled and whatever *)
(* its trigger (it is refused only with Conflict, while a run for the      *)
(* worktree and the step's trigger is in flight); for an id the Config     *)
(* does not hold it fails with NotFound, executes nothing and leaves the   *)
(* Config, every Run, every stored slot and the activity log unchanged.    *)
(***************************************************************************)
C8_SingleRun ==
  \A r \in Req :
    (run[r].status # "none" /\ run[r].kind = "runSingle") =>
      /\ Ids(run[r].steps) = <<req[r].stepId>>
      /\ IsCommand(ConfigStep(req[r].stepId)) => Executed(run[r].steps[1])

C8_SingleStep ==
  \A r \in Req :
    (req[r].pc = "idle" /\ req'[r].pc # "idle" /\ req'[r].kind = "runSingle") =>
      LET id == req'[r].stepId
          w == req'[r].worktreeId
          known == \E k \in 1..Len(steps) : steps[k].id = id
      IN  /\ steps' = steps
          /\ \A q \in Req \ {r} : run'[q] = run[q]
          /\ ~known => /\ req'[r].pc = "rejected" /\ req'[r].error = "NotFound"
                       /\ run' = run /\ slot' = slot /\ log' = log
          /\ known =>
               LET t == RequestedTrigger(ConfigStep(id).trigger)
                   busy == \E q \in Req : RunningFor(q, w, t)
               IN  /\ busy <=> (req'[r].pc = "rejected" /\ req'[r].error = "Conflict")
                   /\ ~busy => /\ req'[r].pc \in {"awaiting", "done"}
                               /\ Ids(run'[r].steps) = <<id>>
                               /\ slot'[w] = r

C8_RunSingle == [](C8_SingleRun) /\ [][C8_SingleStep]_vars

\* A run-single request for an unknown id was refused with NotFound and one for
\* a disabled step of trigger pre-implementation has run the step to passed
C8_Witness ==
  /\ req[1].kind = "runSingle" /\ req[1].error = "NotFound"
  /\ run[1].status = "none"
  /\ \A i \in 1..Len(log) : log[i].request = 2
  /\ req[2].kind = "runSingle" /\ req[2].pc = "done"
  /\ ConfigStep(req[2].stepId).enabled = JFalse
  /\ ConfigStep(req[2].stepId).trigger = PRE
  /\ run[2].steps[1].status = "passed"

(***************************************************************************)
(* C9: getStatus(w) returns the status of the Run most recently created    *)
(* for worktree w by a run-all or run-single request, and the no-run       *)
(* indication when none was; the read changes no state and starts no run,  *)
(* and what it returns for w does not depend on the runs of another        *)
(* worktree.                                                               *)
(***************************************************************************)
\* The requests that created a Run for worktree w; they are numbered in order
CreatedFor(w) == {r \in Req : run[r].status # "none" /\ run[r].worktreeId = w}

MostRecentStatus(w) ==
  IF CreatedFor(w) = {}
  THEN "no-run"
  ELSE run[CHOOSE r \in CreatedFor(w) : \A q \in CreatedFor(w) : q <= r].status

C9_Stored == \A w \in Worktrees : getStatus(w) = MostRecentStatus(w)

C9_ReadStep ==
  (resp' # resp /\ resp'.op = "getStatus") =>
    /\ resp'.status = MostRecentStatus(resp'.worktreeId)
    /\ steps' = steps /\ req' = req /\ run' = run /\ slot' = slot /\ log' = log
    /\ skillResults' = skillResults

C9_GetStatus == [](C9_Stored) /\ [][C9_ReadStep]_vars

\* Two Runs were created for w1, the first has failed, the second is running
\* and is the one whose status the read returned
C9_Witness ==
  /\ CreatedFor("w1") = {1, 2}
  /\ run[1].status = "failed"
  /\ run[2].status = "running"
  /\ resp = Response("getStatus", "w1", "running", {})

(***************************************************************************)
(* C2: for every key (worktreeId, skillName, trigger), the record that     *)
(* getSkillResults returns is the one written by the last accepted report  *)
(* for the key, whatever its phase: an accepted report leaves exactly its  *)
(* own record under its key whatever was stored there (a start report      *)
(* after a result leaves running, a result after a start leaves the        *)
(* terminal status), nothing but an accepted report for the key changes    *)
(* the record of the key, and the read returns the records of the store.   *)
(***************************************************************************)
\* The records stored under a key
Under(store, w, skillName, trigger) ==
  {x \in store : x.worktreeId = w /\ x.skillName = skillName /\ x.trigger = trigger}

\* The request is one the route accepts
Accepted(body) ==
  /\ body.skillName # Undefined /\ body.skillName # Str("")
  /\ body.success \in {Undefined, Null, JTrue, JFalse}

\* The status a report is to leave stored
ReportedStatus(body) ==
  IF body.success = JTrue THEN "passed"
  ELSE IF body.success = JFalse THEN "failed"
  ELSE "running"

C2_LastWrite ==
  \A inp \in ReportInputs :
    (Report(inp[1], inp[2]) /\ Accepted(inp[2])) =>
      \E x \in skillResults' :
        /\ Under(skillResults', inp[1], inp[2].skillName, inp[2].trigger) = {x}
        /\ x.status = ReportedStatus(inp[2])

C2_OnlyReports ==
  \A k \in ReportKeys :
    Under(skillResults', k[1], k[2], k[3]) # Under(skillResults, k[1], k[2], k[3]) =>
      \E inp \in ReportInputs :
        /\ inp[1] = k[1] /\ inp[2].skillName = k[2] /\ inp[2].trigger = k[3]
        /\ Accepted(inp[2])
        /\ Report(inp[1], inp[2])

C2_Read ==
  (resp' # resp /\ resp'.op = "getSkillResults") =>
    /\ resp'.results = {x \in skillResults : x.worktreeId = resp'.worktreeId}
    /\ skillResults' = skillResults

C2_LastWriteWins == [][C2_LastWrite /\ C2_OnlyReports /\ C2_Read]_vars

\* A start report has just been accepted for the only key of the store, the
\* key held a terminal record, and now holds the running one
C2_Witness ==
  /\ resp.op = "report"
  /\ resp.prior = "passed"
  /\ \E x \in skillResults : skillResults = {x} /\ x.status = "running"

(***************************************************************************)
(* C3: the status a report with a non-empty skillName stores is determined *)
(* by its success field alone: absent or null stores running with no       *)
(* success flag, true stores passed, false stores failed; a report with    *)
(* any other success, or with an empty or missing skillName, is answered   *)
(* with an error and leaves every stored skill result unchanged.           *)
(***************************************************************************)
C3_Stored(w, body) ==
  \E x \in Under(skillResults', w, body.skillName, body.trigger) :
    IF body.success = JTrue THEN x.status = "passed" /\ x.success = JTrue
    ELSE IF body.success = JFalse THEN x.status = "failed" /\ x.success = JFalse
    ELSE x.status = "running" /\ x.success = Undefined

C3_Rejected ==
  /\ skillResults' = skillResults
  /\ resp'.op = "report"
  /\ resp'.status \in {"skillName is required", "success must be a boolean"}

C3_ReportStep ==
  \A inp \in ReportInputs :
    Report(inp[1], inp[2]) =>
      IF Accepted(inp[2])
      THEN C3_Stored(inp[1], inp[2]) /\ resp'.status = "success"
      ELSE C3_Rejected

C3_StatusBySuccess == [][C3_ReportStep]_vars

\* Records with the three statuses are stored, and a report that was rejected
\* for its success field has left them there
C3_Witness ==
  /\ resp.op = "report"
  /\ resp.status = "success must be a boolean"
  /\ \E x, y, z \in skillResults :
       /\ x.status = "running" /\ x.success = Undefined
       /\ y.status = "passed" /\ y.success = JTrue
       /\ z.status = "failed" /\ z.success = JFalse

(***************************************************************************)
(* C4: a report for key (w, s, t) changes only the record of that key: the *)
(* records of every other key, the Config and the stored Run of every      *)
(* worktree are unchanged; and a report is handled in every state, so also *)
(* while a run of the same worktree is in flight, and is then applied      *)
(* without the run having completed.                                       *)
(***************************************************************************)
C4_Frame(w, body) ==
  /\ \A x \in skillResults \cup skillResults' :
       \/ x \in skillResults /\ x \in skillResults'
       \/ x \in Under(skillResults \cup skillResults', w, body.skillName, body.trigger)
  /\ steps' = steps /\ run' = run /\ slot' = slot /\ req' = req
  /\ \A v \in Worktrees : getStatus(v)' = getStatus(v)

C4_AppliedInFlight(w, body) ==
  (Accepted(body) /\ RunInFlight(w)) =>
    /\ RunInFlight(w)'
    /\ \E x \in Under(skillResults', w, body.skillName, body.trigger) :
         x.status = ReportedStatus(body)

C4_ReportStep ==
  \A inp \in ReportInputs :
    Report(inp[1], inp[2]) =>
      C4_Frame(inp[1], inp[2]) /\ C4_AppliedInFlight(inp[1], inp[2])

C4_NeverBlocked == \A inp \in ReportInputs : ENABLED Report(inp[1], inp[2])

C4_Independent == [](C4_NeverBlocked) /\ [][C4_ReportStep]_vars

\* A report was applied while a run of its worktree was in flight; the run is
\* still in flight, and the records of two other keys are stored beside the
\* one the report wrote
C4_Witness ==
  /\ resp.op = "report"
  /\ resp.status = "success"
  /\ resp.busy
  /\ RunInFlight("w1")
  /\ ~RunInFlight("w2")
  /\ Cardinality(skillResults) = 3
  /\ \A x \in skillResults : x.worktreeId = "w1"

(***************************************************************************)
(* C11: matches(step, requested) holds for a step whose trigger is unset   *)
(* only when requested is post-implementation; for every requested         *)
(* trigger other than post-implementation a step matches if and only if    *)
(* its trigger equals the requested trigger.                               *)
(***************************************************************************)
C11_Matches ==
  fnOut.op = "matches" =>
    /\ (fnStep.trigger = Undefined /\ fnOut.value = JTrue)
         => fnArg = Str("post-implementation")
    /\ fnArg # Str("post-implementation")
         => (fnOut.value = JTrue <=> fnStep.trigger = fnArg)
    /\ fnOut.value \in {JTrue, JFalse}

\* A step with no trigger has been matched against post-implementation, and
\* matches
C11_Witness ==
  /\ fnOut.op = "matches"
  /\ fnStep.trigger = Undefined
  /\ fnArg = Str("post-implementation")
  /\ fnOut.value = JTrue

(***************************************************************************)
(* C12: isRunnable(step) holds if and only if the step's kind is not       *)
(* prompt and its command, trimmed, is non-empty: never for kind prompt    *)
(* even with a command, never for an absent, empty or whitespace-only      *)
(* command whatever the kind, and always for a step of another kind with   *)
(* both a command and prompt text.                                         *)
(***************************************************************************)
\* The command has a character that is not a space
HasCommand(step) ==
  /\ step.command # Undefined
  /\ \E i \in 1..Len(step.command) : step.command[i] # " "

C12_IsRunnable ==
  fnOut.op = "isRunnable" =>
    (fnOut.value = JTrue <=> (fnStep.kind # Str("prompt") /\ HasCommand(fnStep)))

\* A step with both a command and prompt text, and no kind, is runnable
C12_Witness ==
  /\ fnOut.op = "isRunnable"
  /\ fnStep.kind = Undefined
  /\ fnStep.command = <<"a", " ">>
  /\ fnStep.prompt = <<"a">>
  /\ fnOut.value = JTrue

(***************************************************************************)
(* C13: addStep is rejected with a validation error exactly when the name  *)
(* is empty, or the step is not a prompt and the command is empty, or the  *)
(* step is a prompt and the prompt is empty; a rejected addStep adds no    *)
(* step and leaves the Config unchanged, an accepted one adds one step.    *)
(***************************************************************************)
\* An absent or empty text
NoText(t) == t = Undefined \/ t = <<>>

C13_Invalid(body) ==
  \/ body.name = Undefined \/ body.name = Str("")
  \/ (body.kind # Str("prompt") /\ NoText(body.command))
  \/ (body.kind = Str("prompt") /\ NoText(body.prompt))

C13_AddStep ==
  \A body \in AddStepGrid :
    AddStep(body) =>
      IF C13_Invalid(body)
      THEN /\ resp'.status \in {"name and command are required",
                                "name and prompt are required", "Validation"}
           /\ steps' = steps /\ skills' = skills /\ issued' = issued
      ELSE /\ resp'.status = "success"
           /\ Len(steps') = Len(steps) + 1
           /\ SubSeq(steps', 1, Len(steps)) = steps

C13_AddStepValidation == [][C13_AddStep]_vars

\* A prompt step is in the Config, and a later body of kind prompt with no
\* prompt has been rejected
C13_Witness ==
  /\ resp.op = "addStep"
  /\ resp.status = "name and prompt are required"
  /\ Len(steps) = 1
  /\ steps[1].kind = Str("prompt")

(***************************************************************************)
(* C14: after any sequence of addStep, updateStep, removeStep and          *)
(* saveConfig calls the step ids of the Config are pairwise distinct; the  *)
(* id a successful addStep assigns differs from every id assigned or       *)
(* stored before, the ids of removed steps included; the added step is     *)
(* appended last, enabled, and with trigger post-implementation when the   *)
(* body gives none.                                                        *)
(***************************************************************************)
C14_Distinct ==
  \A i, j \in 1..Len(steps) : i # j => steps[i].id # steps[j].id

\* issued is the history of the ids: it never loses one and holds every id
\* of the Config
C14_History == issued \subseteq issued' /\ StepIds(steps') \subseteq issued'

C14_Added ==
  \A body \in AddStepFew :
    (AddStep(body) /\ steps' # steps) =>
      /\ Len(steps') = Len(steps) + 1
      /\ SubSeq(steps', 1, Len(steps)) = steps
      /\ steps'[Len(steps')].id \notin issued
      /\ steps'[Len(steps')].id \notin StepIds(steps)
      /\ steps'[Len(steps')].enabled = JTrue
      /\ body.trigger = Undefined
           => steps'[Len(steps')].trigger = Str("post-implementation")

C15_RemoveStep ==
  \A stepId \in StoreIdInputs :
    RemoveStep(stepId) =>
      /\ resp'.status = "success"
      /\ stepId \notin StepIds(steps) => steps' = steps
      /\ stepId \notin StepIds(steps')
      /\ removeStep(steps', stepId) = steps'
      /\ skills' = skills

C15_Idempotent == [][C15_RemoveStep]_vars

\* An id that is not in a Config of two steps has been removed with success
C15_Witness ==
  /\ resp.op = "removeStep"
  /\ resp.prior = "absent"
  /\ resp.status = "success"
  /\ Len(steps) = 2

(***************************************************************************)
(* C16: after any sequence of importSkill, removeSkill and toggleSkill     *)
(* calls the Config holds at most one instance per (skillName, trigger)    *)
(* and every stored trigger is one of the four literals; importSkill with  *)
(* a non-empty skillName creates or replaces the instance at (skillName,   *)
(* normalize(trigger)) and leaves the other instances, those of the same   *)
(* name under other triggers included; with an empty skillName it is       *)
(* rejected and the Config is unchanged.                                   *)
(***************************************************************************)
C16_OnePerKey ==
  /\ \A x, y \in skills :
       (x.skillName = y.skillName /\ x.trigger = y.trigger) => x = y
  /\ \A x \in skills :
       x.trigger \in {Str("pre-implementation"), Str("post-implementation"),
                      Str("custom"), Str("on-demand")}

C16_Import ==
  \A body \in ImportInputs :
    ImportSkill(body) =>
      IF body.skillName = Undefined \/ body.skillName = Str("")
      THEN /\ skills' = skills /\ steps' = steps
           /\ resp'.status = "skillName is required"
      ELSE /\ resp'.status = "success"
           /\ \E x \in skills' :
                /\ x.skillName = body.skillName
                /\ x.trigger = RequestedTrigger(body.trigger)
                /\ x.condition = body.condition
           /\ {y \in skills' : ~(/\ y.skillName = body.skillName
                                 /\ y.trigger = RequestedTrigger(body.trigger))}
                = {y \in skills : ~(/\ y.skillName = body.skillName
                                    /\ y.trigger = RequestedTrigger(body.trigger))}

C16_SkillKeys == [](C16_OnePerKey) /\ [][C16_Import]_vars

\* After an import, review is held under two triggers, with a condition under
\* one of them, beside another skill
C16_Witness ==
  /\ resp.op = "importSkill"
  /\ resp.status = "success"
  /\ \E x, y \in skills :
       /\ x.skillName = Str("review") /\ x.trigger = Str("pre-implementation")
       /\ y.skillName = Str("review") /\ y.trigger = Str("post-implementation")
       /\ x.condition = Str("c") /\ y.condition = Undefined
  /\ Cardinality(skills) = 3

(***************************************************************************)
(* C17: removeSkill(name, trigger) with a trigger removes only the         *)
(* instance at (name, trigger) and leaves every other instance, those of   *)
(* the name under other triggers included; removeSkill(name) without a     *)
(* trigger removes every instance of the name and none of another name;    *)
(* removing an absent instance answers success and leaves the Config       *)
(* unchanged.                                                              *)
(***************************************************************************)
C17_Remove ==
  \A name \in SkillNames, trigger \in RemoveTriggers :
    RemoveSkill(name, trigger) =>
      /\ resp'.status = "success"
      /\ steps' = steps
      /\ IF trigger = Undefined
         THEN skills' = {x \in skills : x.skillName # name}
         ELSE skills' = {x \in skills : ~(x.skillName = name /\ x.trigger = trigger)}
      /\ (~\E x \in skills : /\ x.skillName = name
                             /\ (trigger = Undefined \/ x.trigger = trigger))
           => skills' = skills

C17_RemoveSkillFrame == [][C17_Remove]_vars

\* An instance has been removed, and review under the other trigger and
\* another skill are still held: the removal was of review at one trigger
C17_Witness ==
  /\ resp.op = "removeSkill"
  /\ resp.prior = "present"
  /\ Cardinality(skills) = 2
  /\ \E x, y \in skills :
       /\ x.skillName = Str("review") /\ x.trigger = Str("post-implementation")
       /\ y.skillName = Str("lint")

(***************************************************************************)
(* C18: getEffectiveSkills(w) is a pure read: it leaves the steps and the  *)
(* skill instances of the global Config unchanged, a second call for the   *)
(* same worktree with no mutation between returns the same result, an      *)
(* instance with no override for w is returned as it is in the Config, and *)
(* an override for worktree w changes the effective view of no other       *)
(* worktree.                                                               *)
(***************************************************************************)
C18_Read ==
  \A w \in Worktrees :
    GetEffectiveSkills(w) =>
      /\ skills' = skills /\ steps' = steps /\ overrides' = overrides
      /\ resp'.results = getEffectiveSkills(w)
      /\ \A v \in Worktrees : getEffectiveSkills(v)' = getEffectiveSkills(v)
      /\ \A x \in skills :
           (~\E o \in overrides[w] : /\ o.skillName = x.skillName
                                     /\ o.trigger = x.trigger)
             => x \in resp'.results

C18_Override ==
  \A w \in Worktrees, enabled \in {JTrue, JFalse} :
    SetOverride(w, Str("review"), PRE, enabled) =>
      /\ skills' = skills
      /\ \A v \in Worktrees \ {w} : getEffectiveSkills(v)' = getEffectiveSkills(v)

C18_PureRead == [][C18_Read /\ C18_Override]_vars

\* The view read for w1 has review at pre-implementation disabled by w1's
\* override, another instance as in the Config, and the view of w2 is the
\* Config's
C18_Witness ==
  /\ resp.op = "getEffectiveSkills"
  /\ resp.worktreeId = "w1"
  /\ resp.results = getEffectiveSkills("w1")
  /\ resp.results # skills
  /\ getEffectiveSkills("w2") = skills
  /\ Cardinality(skills) = 2
  /\ Cardinality(resp.results \cap skills) = 1

(***************************************************************************)
(* C19: a step result of a Run changes status only along pending, running, *)
(* passed or failed: a passed or failed step never changes again, no step  *)
(* goes from pending to passed or failed, a prompt (non-runnable) step is  *)
(* never running, and every passed or failed step has startedAt,           *)
(* completedAt and durationMs recorded, also when its command failed to    *)
(* launch or exited with a nonzero code.                                   *)
(***************************************************************************)
\* The status changes a step result may make
C19_Allowed ==
  {<<"pending", "running">>, <<"running", "passed">>, <<"running", "failed">>}

C19_Step ==
  \A r \in Req :
    run[r].status # "none" =>
      /\ Len(run'[r].steps) = Len(run[r].steps)
      /\ \A i \in 1..Len(run[r].steps) :
           \/ run'[r].steps[i].status = run[r].steps[i].status
           \/ <<run[r].steps[i].status, run'[r].steps[i].status>> \in C19_Allowed

\* A command that ends, however it ends, leaves its step passed or failed
\* with the three times recorded
C19_Finish ==
  \A r \in Req, outcome \in Outcomes :
    FinishStep(r, outcome) =>
      \E i \in 1..Len(run[r].steps) :
        /\ run[r].steps[i].status = "running"
        /\ run'[r].steps[i].status = IF outcome = "exit 0" THEN "passed" ELSE "failed"
        /\ run'[r].steps[i].startedAt /\ run'[r].steps[i].completedAt
        /\ run'[r].steps[i].durationMs

C19_Recorded ==
  \A r \in Req : \A i \in 1..Len(run[r].steps) :
    LET result == run[r].steps[i]
    IN  /\ result.status \in {"pending", "running", "passed", "failed", "skipped"}
        /\ Executed(result) => IsCommand(ConfigStep(result.stepId))
        /\ ~IsCommand(ConfigStep(result.stepId)) => result.status = "skipped"
        /\ result.status = "running" => result.startedAt
        /\ result.status \in {"passed", "failed"} =>
             result.startedAt /\ result.completedAt /\ result.durationMs

C19_StepStates == [](C19_Recorded) /\ [][C19_Step /\ C19_Finish]_vars

\* In a run-all Run over a command step and a prompt step the command has
\* failed, with its times recorded, and the prompt step was not executed
C19_Witness ==
  \E r \in Req :
    /\ Len(run[r].steps) = 2
    /\ run[r].steps[1].status = "failed"
    /\ run[r].steps[1].durationMs
    /\ run[r].steps[2].status = "skipped"
    /\ run[r].status = "failed"

(***************************************************************************)
(* C20: in the activity log every hooks_ran event is preceded by a         *)
(* hooks_started event with the same groupKey added by the same request,   *)
(* for run-all and for run-single requests, a run-single request for a     *)
(* disabled step or a prompt step included.                                *)
(***************************************************************************)
C20_RanAfterStarted ==
  \A i \in 1..Len(log) :
    log[i].type = "hooks_ran" =>
      \E j \in 1..(i - 1) :
        /\ log[j].type = "hooks_started"
        /\ log[j].groupKey = log[i].groupKey
        /\ log[j].request = log[i].request

(***************************************************************************)
(* C21: every hooks_started event a run-all or run-single request adds is  *)
(* followed by a hooks_ran event with the same groupKey from the same      *)
(* request, also when the runAll or runSingle call is rejected or throws:  *)
(* a request that has ended has left no hooks_started event without a      *)
(* completion event.                                                       *)
(***************************************************************************)
C21_StartedThenRan ==
  \A r \in Req :
    req[r].pc \in {"done", "rejected"} =>
      \A i \in 1..Len(log) :
        (log[i].type = "hooks_started" /\ log[i].request = r) =>
          \E j \in (i + 1)..Len(log) :
            /\ log[j].type = "hooks_ran"
            /\ log[j].groupKey = log[i].groupKey
            /\ log[j].request = r

(***************************************************************************)
(* C22: addStep validation and step classification agree.  Under          *)
(* SpecAccept the config starts empty and grows by addStep alone, so every *)
(* step in it                                                              *)
(* was accepted by addStep: one with kind other than prompt is classified  *)
(* runnable by isRunnable, and one with kind prompt is stored with an      *)
(* empty command and is classified not runnable.                           *)
(***************************************************************************)
C22_AcceptedAgree ==
  \A i \in 1..Len(steps) :
    IF steps[i].kind = Str("prompt")
    THEN steps[i].command = <<>> /\ ~isRunnableCommandStep(steps[i])
    ELSE isRunnableCommandStep(steps[i])

====
